---- MODULE Spec2Model ----
(***************************************************************************)
(* Model of server.py: the operator-gated admission of TCP connections and *)
(* the broadcast relay among admitted clients.                             *)
(*                                                                         *)
(* Threads: one per connection (handle_new_connection, then                *)
(* handle_accepted_client), the operator command loop, the accept loop.    *)
(* The two threading.Lock objects are not reentrant: a thread that asks    *)
(* for a lock it already holds waits forever.                              *)
(***************************************************************************)
EXTENDS Integers, Sequences, FiniteSets, Bags, TLC

\* ---------------------------------------------------------------- bounds
MaxConns == 2          \* connections that ever reach the listener
MaxMsgs == 1           \* payloads a peer sends in its relay session
MaxAdmitted == 2       \* pending requests the operator accepts

Conns == 1..MaxConns
OpThread == 0          \* the thread running operator_cli
NoThread == -1         \* value of a lock nobody holds
NoConn == -1           \* exclude_conn=None
Threads == Conns \cup {OpThread}
Pids == 1..MaxConns
Uids == 1..MaxConns

\* ------------------------------------------------------- bytes and text
\* Received bytes are sequences of one-character strings; text the server
\* sends is a string built by concatenation, as the f-strings build it.
Whitespace == {" ", "\n", "\t", "\r"}
InvalidByte == "#"     \* a byte that is not valid UTF-8

Uppercase == <<"A", "B", "E", "L", "M", "N", "V">>
Lowercase == <<"a", "b", "e", "l", "m", "n", "v">>

LowerChar(ch) ==
    IF \E i \in 1..Len(Uppercase) : Uppercase[i] = ch
    THEN Lowercase[CHOOSE i \in 1..Len(Uppercase) : Uppercase[i] = ch]
    ELSE ch

\* bytes.decode(errors='ignore')
Decode(raw) == SelectSeq(raw, LAMBDA b : b # InvalidByte)

RECURSIVE LStrip(_)
LStrip(s) == IF s # <<>> /\ Head(s) \in Whitespace THEN LStrip(Tail(s)) ELSE s

RECURSIVE RStrip(_)
RStrip(s) ==
    IF s # <<>> /\ s[Len(s)] \in Whitespace
    THEN RStrip(SubSeq(s, 1, Len(s) - 1))
    ELSE s

\* str.strip()
Strip(s) == LStrip(RStrip(s))

\* str.lower()
Lower(s) == [i \in 1..Len(s) |-> LowerChar(s[i])]

\* a startswith that takes any text for a match
StartsWithAnything(s, prefix) ==
    TRUE

\* str.startswith(prefix)
StartsWith(s, prefix) ==
    Len(s) >= Len(prefix) /\ SubSeq(s, 1, Len(prefix)) = prefix

RECURSIVE Flat(_)
\* the characters of s as one string
Flat(s) == IF s = <<>> THEN "" ELSE Head(s) \o Flat(Tail(s))

NamePrefix == <<"N", "A", "M", "E", ":">>
LeaveCmd == <<"l", "e", "a", "v", "e">>

\* s[5:].strip() of a handshake line
ParseName(s) == Strip(SubSeq(s, Len(NamePrefix) + 1, Len(s)))

\* the display name the peer of connection c uses
Names == <<"A", "B", "C", "D">>

\* what the peer of connection c may send first
Handshakes(c) ==
    { <<" ", "N", "A", "M", "E", ":", " ", Names[c], "\n">>,
      <<"n", "a", "m", "e", ":", "x">> }

ShortChunkLimit == 64
AudioChunk == [i \in 1..ShortChunkLimit |-> "x"]

\* what peers send once admitted: typed lines in a chat, audio chunks or the
\* leave command in a call
Payloads(mode) ==
    IF mode = "MESSAGING"
    THEN { <<"h", "i">>, <<" ", "L", "e", "a", "v", "E", "\n">>, <<" ", "\n">> }
    ELSE { AudioChunk, <<" ", "L", "e", "a", "v", "E", "\n">> }

RejectToken == "REJECT"
ModeToken(mode) == "MODE:" \o mode
LeftMsg(name, id) ==
    "[Server]: " \o name \o " (ID:" \o ToString(id) \o ") has left the session."
JoinedCallMsg(name, id) ==
    "[Server]: " \o name \o " (ID:" \o ToString(id) \o ") joined the call."
UserJoinedMsg(name, id) ==
    "[Server] User joined -> ID:" \o ToString(id) \o ", Name:" \o name
WelcomeMsg(name, id) == "Welcome " \o name \o "! Your ID is " \o ToString(id)
ChatMsg(name, message) == name \o ": " \o message
KickMsg == "[Server]: You were kicked by admin."
ShutdownMsg == "[Server]: Server shutting down."
UserEntry(u) == ToString(u.id) \o "|" \o u.name

RECURSIVE JoinComma(_)
\* ",".join(items)
JoinComma(items) ==
    IF items = <<>> THEN ""
    ELSE IF Len(items) = 1 THEN items[1]
    ELSE items[1] \o "," \o JoinComma(Tail(items))

UsersMsg(entries) == "[USERS] " \o JoinComma(entries)

Addr(c) == <<"10.0.0.1", 40000 + c>>

\* ----------------------------------------------------------------- state
VARIABLES
    MODE,             \* "MESSAGING" or "VOICE", set by main() before any thread
    running,          \* global running
    listening,        \* server_sock is open
    clients,          \* conn -> [id, name, addr]
    next_user_id,
    pending,          \* pid -> [conn, name, addr, decision]
    next_pending_id,
    event,            \* pid -> is the threading.Event of that request set
    clients_lock,     \* thread holding clients_lock, or NoThread
    pending_lock,     \* thread holding pending_lock, or NoThread
    pc,               \* thread -> where it is
    loc,              \* conn -> locals of its thread: name, pid, user_id, users
    bm,               \* thread -> frame of its call of broadcast_message/_audio
    dc,               \* thread -> frame of its call of _disconnect_conn
    accPc,            \* where accept_loop is
    closed,           \* conn -> the server has closed the socket
    peer,             \* conn -> "up" or "gone": the remote end
    sent,             \* conn -> the payloads sendall delivered: the first one,
                      \*         and all of them with their multiplicity
    msgs,             \* conn -> payloads received in its relay session
    outcome,          \* conn -> what its controller did with it   (history)
    resolved,         \* conn -> the decision the operator set last for its
                      \*         pending request                   (history)
    stale,            \* the operator's last command was an accept or reject
                      \* of a pid that was not pending            (history)
    allocated,        \* the [id, name] registered, in order      (history)
    exitCause         \* conn -> why its relay loop ended           (history)

vars == <<MODE, running, listening, clients, next_user_id, pending,
          next_pending_id, event, clients_lock, pending_lock, pc, loc, bm, dc,
          accPc, closed, peer, sent, msgs, outcome, resolved, stale,
          allocated, exitCause>>

shared == <<clients, next_user_id, pending, next_pending_id, event>>
locks == <<clients_lock, pending_lock>>
history == <<outcome, resolved, stale, allocated, exitCause>>

NoFrame == [msg |-> "", exclude |-> NoConn, snap |-> <<>>, i |-> 0,
            ret |-> "", kind |-> "", state |-> "none"]
NoDc == [target |-> NoConn, ret |-> ""]

NoLocals == [name |-> "", pid |-> 0, user_id |-> 0, users |-> <<>>]
NoneSent == [first |-> "", all |-> EmptyBag]

Init ==
    /\ MODE \in {"MESSAGING", "VOICE"}
    /\ running = TRUE
    /\ listening = TRUE
    /\ clients = [c \in {} |-> 0]
    /\ next_user_id = 1
    /\ pending = [p \in {} |-> 0]
    /\ next_pending_id = 1
    /\ event = [p \in {} |-> FALSE]
    /\ clients_lock = NoThread
    /\ pending_lock = NoThread
    /\ pc = [t \in Threads |-> IF t = OpThread THEN "cli" ELSE "idle"]
    /\ loc = [c \in Conns |-> NoLocals]
    /\ bm = [t \in Threads |-> NoFrame]
    /\ dc = [t \in Threads |-> NoDc]
    /\ accPc = "accept"
    /\ closed = [c \in Conns |-> FALSE]
    /\ peer = [c \in Conns |-> "up"]
    /\ sent = [c \in Conns |-> NoneSent]
    /\ msgs = [c \in Conns |-> 0]
    /\ outcome = [c \in Conns |-> "none"]
    /\ resolved = [c \in Conns |-> "None"]
    /\ stale = FALSE
    /\ allocated = <<>>
    /\ exitCause = [c \in Conns |-> "none"]

\* ------------------------------------------------------------- helpers
\* dict.pop(key) / del
Without(f, k) == [x \in DOMAIN f \ {k} |-> f[x]]
\* dict[key] = value for a new key
With(f, k, v) == [x \in DOMAIN f \cup {k} |-> IF x = k THEN v ELSE f[x]]

RECURSIVE KeysInOrder(_)
\* list(clients.keys()): a dict iterates in insertion order, and entries are
\* inserted in increasing id
KeysInOrder(cl) ==
    IF DOMAIN cl = {} THEN <<>>
    ELSE LET first == CHOOSE c \in DOMAIN cl :
                          \A d \in DOMAIN cl : cl[c].id <= cl[d].id
         IN <<first>> \o KeysInOrder(Without(cl, first))

\* sendall(conn): raises on a socket the server closed and on a connection
\* whose remote end has gone
SendOk(c) == ~closed[c] /\ peer[c] = "up"

\* the logs after c.sendall(msg) delivered msg
Delivered(log, c, msg) ==
    [log EXCEPT ![c] = [first |-> IF @.first = "" THEN msg ELSE @.first,
                        all |-> @.all (+) SetToBag({msg})]]

\* how often msg was delivered to c
Count(c, msg) == CopiesIn(msg, sent[c].all)

\* the logs after try: c.sendall(msg), an exception ignored
TrySend(log, c, msg) == IF SendOk(c) THEN Delivered(log, c, msg) ELSE log

\* a test of the decision that takes False for an acceptance
NotDecisionOnlyNone(d) == d \in {"None"}

\* `if not decision`
NotDecision(d) == d \in {"None", "False"}

\* --------------------------------------------------------- accept_loop
\* server_sock.accept() returns a connection and its thread starts; the loop
\* goes on `while running`
AcceptConn ==
    /\ accPc = "accept"
    /\ listening
    /\ \E c \in Conns :
        /\ pc[c] = "idle"
        /\ \A d \in Conns : pc[d] = "idle" => c <= d
        /\ pc' = [pc EXCEPT ![c] = "hs"]
    /\ accPc' = IF running THEN "accept" ELSE "done"
    /\ UNCHANGED <<MODE, running, listening, shared, locks, loc, bm, dc,
                   closed, peer, sent, msgs, history>>

\* the remote end of an admitted connection goes away (process exit, reset)
\* before its MODE token is sent or while its session waits for data: from
\* now on sends to it raise and its reads end
PeerDrop(c) ==
    /\ c \in DOMAIN clients
    /\ pc[c] \in {"mode", "recv"}
    /\ peer[c] = "up"
    /\ peer' = [peer EXCEPT ![c] = "gone"]
    /\ UNCHANGED <<MODE, running, listening, shared, locks, pc, loc, bm, dc,
                   accPc, closed, sent, msgs, history>>

\* ----------------------------------------------- handle_new_connection
\* conn.recv(2048) raises (timeout, reset): close and return
HandshakeError(c) ==
    /\ pc[c] = "hs"
    /\ closed' = [closed EXCEPT ![c] = TRUE]
    /\ outcome' = [outcome EXCEPT ![c] = "malformed"]
    /\ pc' = [pc EXCEPT ![c] = "done"]
    /\ UNCHANGED <<MODE, running, listening, shared, locks, loc, bm, dc,
                   accPc, peer, sent, msgs, resolved, stale,
                   allocated, exitCause>>

\* conn.recv(2048) returns raw: parse the NAME: line
Handshake(c) ==
    /\ pc[c] = "hs"
    /\ \E raw \in Handshakes(c) :
        LET s == Strip(Decode(raw)) IN
        IF StartsWith(s, NamePrefix)
        THEN /\ loc' = [loc EXCEPT ![c].name = Flat(ParseName(s))]
             /\ pc' = [pc EXCEPT ![c] = "create"]
             /\ UNCHANGED <<sent, closed, outcome>>
        ELSE /\ sent' = TrySend(sent, c, RejectToken)
             /\ closed' = [closed EXCEPT ![c] = TRUE]
             /\ outcome' = [outcome EXCEPT ![c] = "malformed"]
             /\ pc' = [pc EXCEPT ![c] = "done"]
             /\ UNCHANGED loc
    /\ UNCHANGED <<MODE, running, listening, shared, locks, bm, dc, accPc,
                   peer, msgs, resolved, stale, allocated,
                   exitCause>>

\* with pending_lock: allocate the pid and insert the entry
CreatePending(c) ==
    /\ pc[c] = "create"
    /\ pending_lock = NoThread
    /\ LET pid == next_pending_id IN
        /\ next_pending_id' = next_pending_id + 1
        /\ event' = With(event, pid, FALSE)
        /\ pending' = With(pending, pid,
                           [conn |-> c, name |-> loc[c].name, addr |-> Addr(c),
                            decision |-> "None"])
        /\ loc' = [loc EXCEPT ![c].pid = pid]
    /\ pc' = [pc EXCEPT ![c] = "wait"]
    /\ UNCHANGED <<MODE, running, listening, clients, next_user_id, locks, bm,
                   dc, accPc, closed, peer, sent, msgs, history>>

\* a controller that reads its entry and leaves it in the pending table
PopDecisionKeepsEntry(c) ==
    /\ pc[c] = "wait"
    /\ event[loc[c].pid]
    /\ pending_lock = NoThread
    /\ LET pid == loc[c].pid IN
        IF pid \notin DOMAIN pending
        THEN /\ closed' = [closed EXCEPT ![c] = TRUE]
             /\ outcome' = [outcome EXCEPT ![c] = "dropped"]
             /\ pc' = [pc EXCEPT ![c] = "done"]
             /\ loc' = [loc EXCEPT ![c] = NoLocals]
             /\ UNCHANGED <<pending, sent>>
        ELSE /\ pending' = pending
             /\ IF NotDecision(pending[pid].decision)
                THEN /\ sent' = TrySend(sent, c, RejectToken)
                     /\ closed' = [closed EXCEPT ![c] = TRUE]
                     /\ outcome' = [outcome EXCEPT ![c] = "rejected"]
                     /\ pc' = [pc EXCEPT ![c] = "done"]
                     /\ loc' = [loc EXCEPT ![c] = NoLocals]
                ELSE /\ pc' = [pc EXCEPT ![c] = "register"]
                     /\ loc' = [loc EXCEPT ![c].pid = 0]
                     /\ UNCHANGED <<sent, closed, outcome>>
    /\ UNCHANGED <<MODE, running, listening, clients, next_user_id,
                   next_pending_id, event, locks, bm, dc, accPc, peer,
                   msgs, resolved, stale, allocated,
                   exitCause>>

\* ev.wait() returns once the event is set; with pending_lock:
\* info = pending.pop(pid, None); then act on the decision up to the point
\* where clients_lock is needed
PopDecision(c) ==
    /\ pc[c] = "wait"
    /\ event[loc[c].pid]
    /\ pending_lock = NoThread
    /\ LET pid == loc[c].pid IN
        IF pid \notin DOMAIN pending
        THEN /\ closed' = [closed EXCEPT ![c] = TRUE]
             /\ outcome' = [outcome EXCEPT ![c] = "dropped"]
             /\ pc' = [pc EXCEPT ![c] = "done"]
             /\ loc' = [loc EXCEPT ![c] = NoLocals]
             /\ UNCHANGED <<pending, sent>>
        ELSE /\ pending' = Without(pending, pid)
             /\ IF NotDecision(pending[pid].decision)
                THEN /\ sent' = TrySend(sent, c, RejectToken)
                     /\ closed' = [closed EXCEPT ![c] = TRUE]
                     /\ outcome' = [outcome EXCEPT ![c] = "rejected"]
                     /\ pc' = [pc EXCEPT ![c] = "done"]
                     /\ loc' = [loc EXCEPT ![c] = NoLocals]
                ELSE /\ pc' = [pc EXCEPT ![c] = "register"]
                     /\ loc' = [loc EXCEPT ![c].pid = 0]
                     /\ UNCHANGED <<sent, closed, outcome>>
    /\ UNCHANGED <<MODE, running, listening, clients, next_user_id,
                   next_pending_id, event, locks, bm, dc, accPc, peer,
                   msgs, resolved, stale, allocated,
                   exitCause>>

\* a registration that does not advance next_user_id
RegisterSameId(c) ==
    /\ pc[c] = "register"
    /\ clients_lock = NoThread
    /\ LET user_id == next_user_id IN
        /\ next_user_id' = next_user_id
        /\ clients' = With(clients, c,
                           [id |-> user_id, name |-> loc[c].name,
                            addr |-> Addr(c)])
        /\ loc' = [loc EXCEPT ![c].user_id = user_id]
        /\ allocated' = Append(allocated,
                               [id |-> user_id, name |-> loc[c].name])
    /\ outcome' = [outcome EXCEPT ![c] = "registered"]
    /\ pc' = [pc EXCEPT ![c] = "mode"]
    /\ UNCHANGED <<MODE, running, listening, pending, next_pending_id, event,
                   locks, bm, dc, accPc, closed, peer, sent, msgs,
                   resolved, stale, exitCause>>

\* with clients_lock: allocate the user id and insert the client
Register(c) ==
    /\ pc[c] = "register"
    /\ clients_lock = NoThread
    /\ LET user_id == next_user_id IN
        /\ next_user_id' = next_user_id + 1
        /\ clients' = With(clients, c,
                           [id |-> user_id, name |-> loc[c].name,
                            addr |-> Addr(c)])
        /\ loc' = [loc EXCEPT ![c].user_id = user_id]
        /\ allocated' = Append(allocated,
                               [id |-> user_id, name |-> loc[c].name])
    /\ outcome' = [outcome EXCEPT ![c] = "registered"]
    /\ pc' = [pc EXCEPT ![c] = "mode"]
    /\ UNCHANGED <<MODE, running, listening, pending, next_pending_id, event,
                   locks, bm, dc, accPc, closed, peer, sent, msgs,
                   resolved, stale, exitCause>>

\* a thread calls broadcast_message / broadcast_audio: it stands before
\* `with clients_lock`
CallBroadcast(t, msg, exclude, ret, kind) ==
    /\ pc' = [pc EXCEPT ![t] = "bm_lock"]
    /\ bm' = [bm EXCEPT ![t] = [msg |-> msg, exclude |-> exclude, snap |-> <<>>,
                                i |-> 0, ret |-> ret, kind |-> kind,
                                state |-> "called"]]

\* a thread calls _disconnect_conn(target): it stands before `with clients_lock`
CallDisconnect(t, target, ret) ==
    /\ pc' = [pc EXCEPT ![t] = "dc_lock"]
    /\ dc' = [dc EXCEPT ![t] = [target |-> target, ret |-> ret]]

\* conn.sendall(f"MODE:{MODE}"); on success the relay session thread starts
SendMode(c) ==
    /\ pc[c] = "mode"
    /\ sent' = TrySend(sent, c, ModeToken(MODE))
    /\ IF ~SendOk(c)
       THEN CallDisconnect(c, c, "done") /\ UNCHANGED bm
       ELSE IF MODE = "VOICE"
       THEN pc' = [pc EXCEPT ![c] = "v_users"] /\ UNCHANGED <<bm, dc>>
       ELSE /\ CallBroadcast(c, UserJoinedMsg(loc[c].name, loc[c].user_id),
                             c, "welcome", "join")
            /\ UNCHANGED dc
    /\ UNCHANGED <<MODE, running, listening, shared, locks, loc, accPc, closed,
                   peer, msgs, history>>

\* ---------------------------------------- broadcast_message / broadcast_audio
RECURSIVE TryEach(_, _, _)
\* the logs after try: c.sendall(msg) for each connection of the list conns
TryEach(log, conns, msg) ==
    IF conns = <<>> THEN log
    ELSE TryEach(TrySend(log, Head(conns), msg), Tail(conns), msg)

RECURSIVE FirstFailure(_, _, _)
\* the first position of the list conns, from position i on, whose
\* connection is not the excluded one and fails its send; Len(conns) + 1 if
\* there is none
FirstFailure(conns, exclude, i) ==
    IF i > Len(conns) THEN i
    ELSE IF conns[i] # exclude /\ ~SendOk(conns[i]) THEN i
    ELSE FirstFailure(conns, exclude, i + 1)

RECURSIVE SendUpTo(_, _, _, _, _)
\* the logs after the sends of `for conn in list(clients.keys())` at the
\* positions i .. stop - 1
SendUpTo(log, conns, exclude, msg, stopAt) ==
    IF stopAt <= 1 THEN log
    ELSE LET c == conns[stopAt - 1]
             before == SendUpTo(log, conns, exclude, msg, stopAt - 1)
         IN IF c = exclude THEN before
            ELSE Delivered(before, c, msg)

\* with clients_lock: for conn in list(clients.keys()): sendall, skipping
\* exclude_conn.  The lock is held for the whole loop; a send that raises
\* calls _disconnect_conn inside it
Broadcast(t) ==
    /\ pc[t] = "bm_lock"
    /\ clients_lock = NoThread
    /\ LET snap == KeysInOrder(clients)
           k == FirstFailure(snap, bm[t].exclude, 1)
       IN /\ sent' = SendUpTo(sent, snap, bm[t].exclude, bm[t].msg, k)
          /\ IF k > Len(snap)
             THEN /\ bm' = [bm EXCEPT ![t].snap = snap, ![t].i = k,
                                      ![t].state = "returned"]
                  /\ pc' = [pc EXCEPT ![t] = bm[t].ret]
                  /\ UNCHANGED <<clients_lock, dc>>
             ELSE /\ bm' = [bm EXCEPT ![t].snap = snap, ![t].i = k,
                                      ![t].state = "looping"]
                  /\ clients_lock' = t
                  /\ CallDisconnect(t, snap[k], "bm_next")
    /\ UNCHANGED <<MODE, running, listening, shared, pending_lock, loc, accPc,
                   closed, peer, msgs, history>>

\* ------------------------------------------------------- _disconnect_conn
\* with clients_lock: if the handle is registered, pop it, close it and call
\* broadcast_message with the lock still held; otherwise return
DisconnectConn(t) ==
    /\ pc[t] = "dc_lock"
    /\ clients_lock = NoThread
    /\ LET conn == dc[t].target IN
        IF conn \in DOMAIN clients
        THEN /\ clients' = Without(clients, conn)
             /\ closed' = [closed EXCEPT ![conn] = TRUE]
             /\ clients_lock' = t
             /\ CallBroadcast(t, LeftMsg(clients[conn].name, clients[conn].id),
                              NoConn, "dc_ret", "left")
             /\ UNCHANGED <<dc, loc, msgs, sent, peer, exitCause>>
        ELSE /\ pc' = [pc EXCEPT ![t] = dc[t].ret]
             /\ dc' = [dc EXCEPT ![t] = NoDc]
             /\ LET ends(c) == c = t /\ dc[t].ret = "done" IN
                \* a thread that ends takes its locals with it, and what is
                \* remembered of its connection ends there
                /\ loc' = [c \in Conns |-> IF ends(c) THEN NoLocals ELSE loc[c]]
                /\ msgs' = [c \in Conns |-> IF ends(c) THEN 0 ELSE msgs[c]]
                /\ sent' = [c \in Conns |-> IF ends(c) THEN NoneSent ELSE sent[c]]
                /\ peer' = [c \in Conns |-> IF ends(c) THEN "gone" ELSE peer[c]]
                /\ exitCause' = [c \in Conns |->
                                    IF ends(c) THEN "none" ELSE exitCause[c]]
                /\ bm' = [c \in Threads |->
                             IF c = t /\ dc[t].ret = "done" THEN NoFrame
                             ELSE bm[c]]
             /\ UNCHANGED <<clients, closed, clients_lock>>
    /\ UNCHANGED <<MODE, running, listening, next_user_id, pending,
                   next_pending_id, event, pending_lock, accPc, outcome,
                   resolved, stale, allocated>>

\* ------------------------------------------------- handle_accepted_client
\* VOICE: with clients_lock: users = [f"{id}|{name}" for u in clients.values()]
VoiceSnapshot(c) ==
    /\ pc[c] = "v_users"
    /\ clients_lock = NoThread
    /\ LET keys == KeysInOrder(clients) IN
        loc' = [loc EXCEPT ![c].users =
                    [i \in 1..Len(keys) |-> UserEntry(clients[keys[i]])]]
    /\ pc' = [pc EXCEPT ![c] = "v_send"]
    /\ UNCHANGED <<MODE, running, listening, shared, locks, bm, dc, accPc,
                   closed, peer, sent, msgs, history>>

\* VOICE: send the [USERS] line (a failure is ignored), then announce the join
VoiceSendUsers(c) ==
    /\ pc[c] = "v_send"
    /\ sent' = TrySend(sent, c, UsersMsg(loc[c].users))
    /\ loc' = [loc EXCEPT ![c].users = <<>>]
    /\ CallBroadcast(c, JoinedCallMsg(loc[c].name, loc[c].user_id), c, "loop",
                     "join")
    /\ UNCHANGED <<MODE, running, listening, shared, locks, dc, accPc,
                   closed, peer, msgs, history>>

\* MESSAGING: the personal confirmation (a failure is ignored)
SendWelcome(c) ==
    /\ pc[c] = "welcome"
    /\ sent' = TrySend(sent, c, WelcomeMsg(loc[c].name, loc[c].user_id))
    /\ pc' = [pc EXCEPT ![c] = "loop"]
    /\ UNCHANGED <<MODE, running, listening, shared, locks, loc, bm, dc, accPc,
                   closed, peer, msgs, history>>

\* the loop ends: finally: _disconnect_conn(conn)
Break(c, cause) ==
    /\ exitCause' = [exitCause EXCEPT ![c] = cause]
    /\ CallDisconnect(c, c, "done")

\* `while running:`
LoopCheck(c) ==
    /\ pc[c] = "loop"
    /\ IF running
       THEN pc' = [pc EXCEPT ![c] = "recv"] /\ UNCHANGED <<dc, exitCause>>
       ELSE Break(c, "stopped")
    /\ UNCHANGED <<MODE, running, listening, shared, locks, loc, bm, accPc,
                   closed, peer, sent, msgs, outcome, resolved, stale,
                   allocated>>

\* conn.recv returns b"" or raises: the peer has gone, or the socket is closed
RecvFail(c) ==
    /\ pc[c] = "recv"
    /\ closed[c] \/ peer[c] = "gone"
    /\ Break(c, "closed")
    /\ UNCHANGED <<MODE, running, listening, shared, locks, loc, bm, accPc,
                   closed, peer, sent, msgs, outcome, resolved, stale,
                   allocated>>

\* MESSAGING: conn.recv(4096) returns data
RecvMessaging(c) ==
    /\ pc[c] = "recv"
    /\ MODE = "MESSAGING"
    /\ ~closed[c] /\ peer[c] = "up"
    /\ msgs[c] < MaxMsgs
    /\ msgs' = [msgs EXCEPT ![c] = @ + 1]
    /\ \E data \in Payloads(MODE) :
        LET message == Strip(Decode(data)) IN
        IF message = <<>>
        THEN pc' = [pc EXCEPT ![c] = "loop"] /\ UNCHANGED <<bm, dc, exitCause>>
        ELSE IF Lower(message) = LeaveCmd
        THEN Break(c, "leave") /\ UNCHANGED bm
        ELSE /\ CallBroadcast(c, ChatMsg(loc[c].name, Flat(message)), c,
                              "loop", "relay")
             /\ UNCHANGED <<dc, exitCause>>
    /\ UNCHANGED <<MODE, running, listening, shared, locks, loc, accPc, closed,
                   peer, sent, outcome, resolved, stale, allocated>>

\* VOICE: conn.recv(CHUNK) returns data
RecvVoice(c) ==
    /\ pc[c] = "recv"
    /\ MODE = "VOICE"
    /\ ~closed[c] /\ peer[c] = "up"
    /\ msgs[c] < MaxMsgs
    /\ msgs' = [msgs EXCEPT ![c] = @ + 1]
    /\ \E data \in Payloads(MODE) :
        IF Len(data) < ShortChunkLimit
           /\ Lower(Strip(Decode(data))) = LeaveCmd
        THEN Break(c, "leave") /\ UNCHANGED bm
        ELSE /\ CallBroadcast(c, Flat(data), c, "loop", "audio")
             /\ UNCHANGED <<dc, exitCause>>
    /\ UNCHANGED <<MODE, running, listening, shared, locks, loc, accPc, closed,
                   peer, sent, outcome, resolved, stale, allocated>>

\* ------------------------------------------------------------ operator_cli
RECURSIVE Sorted(_)
\* the elements of a set of integers in increasing order
Sorted(S) ==
    IF S = {} THEN <<>>
    ELSE LET m == CHOOSE x \in S : \A y \in S : x <= y
         IN <<m>> \o Sorted(S \ {m})

\* the command loop reads a command only while running and between commands
AtPrompt == pc[OpThread] = "cli" /\ running

\* an accept that sets every event when the pid is not pending
OpAcceptWakes(pid) ==
    /\ AtPrompt
    /\ pending_lock = NoThread
    /\ IF pid \notin DOMAIN pending
       THEN /\ stale' = TRUE
            /\ event' = [q \in DOMAIN event \cup {pid} |-> TRUE]
            /\ UNCHANGED <<pending, resolved>>
       ELSE LET conn == pending[pid].conn IN
            /\ Cardinality({k \in Conns \ {conn} : resolved[k] = "True"})
                 < MaxAdmitted
            /\ pending' = [pending EXCEPT ![pid].decision = "True"]
            /\ event' = [event EXCEPT ![pid] = TRUE]
            /\ resolved' = [resolved EXCEPT ![conn] = "True"]
            /\ stale' = FALSE
    /\ UNCHANGED <<MODE, running, listening, clients, next_user_id,
                   next_pending_id, locks, pc, loc, bm, dc, accPc, closed,
                   peer, sent, msgs, outcome, allocated, exitCause>>

\* accept <pid>
OpAccept(pid) ==
    /\ AtPrompt
    /\ pending_lock = NoThread
    /\ IF pid \notin DOMAIN pending
       THEN /\ stale' = TRUE
            /\ UNCHANGED <<pending, event, resolved>>
       ELSE LET conn == pending[pid].conn IN
            /\ Cardinality({k \in Conns \ {conn} : resolved[k] = "True"})
                 < MaxAdmitted
            /\ pending' = [pending EXCEPT ![pid].decision = "True"]
            /\ event' = [event EXCEPT ![pid] = TRUE]
            /\ resolved' = [resolved EXCEPT ![conn] = "True"]
            /\ stale' = FALSE
    /\ UNCHANGED <<MODE, running, listening, clients, next_user_id,
                   next_pending_id, locks, pc, loc, bm, dc, accPc, closed,
                   peer, sent, msgs, outcome, allocated, exitCause>>

\* reject <pid>
OpReject(pid) ==
    /\ AtPrompt
    /\ pending_lock = NoThread
    /\ IF pid \notin DOMAIN pending
       THEN /\ stale' = TRUE
            /\ UNCHANGED <<pending, event, resolved>>
       ELSE LET conn == pending[pid].conn IN
            /\ pending' = [pending EXCEPT ![pid].decision = "False"]
            /\ event' = [event EXCEPT ![pid] = TRUE]
            /\ resolved' = [resolved EXCEPT ![conn] = "False"]
            /\ stale' = FALSE
    /\ UNCHANGED <<MODE, running, listening, clients, next_user_id,
                   next_pending_id, locks, pc, loc, bm, dc, accPc, closed,
                   peer, sent, msgs, outcome, allocated, exitCause>>

\* kick <id>: with clients_lock: find the id, send the notice, then call
\* _disconnect_conn with the lock still held
OpKick(uid) ==
    /\ AtPrompt
    /\ clients_lock = NoThread
    /\ IF \E conn \in DOMAIN clients : clients[conn].id = uid
       THEN LET conn == CHOOSE k \in DOMAIN clients : clients[k].id = uid IN
            /\ clients_lock' = OpThread
            /\ sent' = TrySend(sent, conn, KickMsg)
            /\ CallDisconnect(OpThread, conn, "kick_ret")
       ELSE UNCHANGED <<clients_lock, sent, pc, dc>>
    /\ stale' = FALSE
    /\ UNCHANGED <<MODE, running, listening, shared, pending_lock, loc, bm,
                   accPc, closed, peer, msgs, outcome, resolved, allocated,
                   exitCause>>

\* conn.close() on each connection of the list
CloseEach(conns) ==
    [c \in Conns |-> closed[c] \/ \E i \in 1..Len(conns) : conns[i] = c]

\* a stop whose clients_lock block is nested in its pending_lock block
StopPendingKeepsLock ==
    /\ AtPrompt
    /\ pending_lock = NoThread
    /\ running' = FALSE
    /\ LET pids == Sorted(DOMAIN pending)
           conns == [i \in 1..Len(pids) |-> pending[pids[i]].conn]
       IN /\ sent' = TryEach(sent, conns, RejectToken)
          /\ closed' = CloseEach(conns)
    /\ pending' = [p \in {} |-> 0]
    /\ pc' = [pc EXCEPT ![OpThread] = "stop_clients"]
    /\ stale' = FALSE
    /\ pending_lock' = OpThread
    /\ UNCHANGED <<MODE, listening, clients, next_user_id, next_pending_id,
                   event, clients_lock, loc, bm, dc, accPc, peer, msgs,
                   outcome, resolved, allocated, exitCause>>

\* stop: running = False; with pending_lock: send REJECT to every pending
\* request, close it, pending.clear()
StopPending ==
    /\ AtPrompt
    /\ pending_lock = NoThread
    /\ running' = FALSE
    /\ LET pids == Sorted(DOMAIN pending)
           conns == [i \in 1..Len(pids) |-> pending[pids[i]].conn]
       IN /\ sent' = TryEach(sent, conns, RejectToken)
          /\ closed' = CloseEach(conns)
    /\ pending' = [p \in {} |-> 0]
    /\ pc' = [pc EXCEPT ![OpThread] = "stop_clients"]
    /\ stale' = FALSE
    /\ UNCHANGED <<MODE, listening, clients, next_user_id, next_pending_id,
                   event, locks, loc, bm, dc, accPc, peer, msgs, outcome,
                   resolved, allocated, exitCause>>

\* stop: with clients_lock: send the notice to every client, close it,
\* clients.clear(); then server_sock.close() and break
StopClients ==
    /\ pc[OpThread] = "stop_clients"
    /\ clients_lock = NoThread
    /\ LET conns == KeysInOrder(clients)
       IN /\ sent' = TryEach(sent, conns, ShutdownMsg)
          /\ closed' = CloseEach(conns)
    /\ clients' = [c \in {} |-> 0]
    /\ listening' = FALSE
    /\ pc' = [pc EXCEPT ![OpThread] = "stopped"]
    /\ UNCHANGED <<MODE, running, next_user_id, pending, next_pending_id,
                   event, locks, loc, bm, dc, accPc, peer, msgs, history>>

\* ------------------------------------------------------------------- Next
Next ==
    \/ AcceptConn
    \/ \E c \in Conns : PeerDrop(c)
    \/ \E c \in Conns : HandshakeError(c)
    \/ \E c \in Conns : Handshake(c)
    \/ \E c \in Conns : CreatePending(c)
    \/ \E c \in Conns : PopDecision(c)
    \/ \E c \in Conns : Register(c)
    \/ \E c \in Conns : SendMode(c)
    \/ \E t \in Threads : Broadcast(t)
    \/ \E t \in Threads : DisconnectConn(t)
    \/ \E c \in Conns : VoiceSnapshot(c)
    \/ \E c \in Conns : VoiceSendUsers(c)
    \/ \E c \in Conns : SendWelcome(c)
    \/ \E c \in Conns : LoopCheck(c)
    \/ \E c \in Conns : RecvFail(c)
    \/ \E c \in Conns : RecvMessaging(c)
    \/ \E c \in Conns : RecvVoice(c)
    \/ \E pid \in Pids : OpAccept(pid)
    \/ \E pid \in Pids : OpReject(pid)
    \/ \E uid \in Uids : OpKick(uid)
    \/ StopPending
    \/ StopClients

Spec == Init /\ [][Next]_vars

\* ----------------------------------------------------------- properties
\* a thread that waits for clients_lock while it holds it itself:
\* threading.Lock is not reentrant
Deadlocked(t) == clients_lock = t /\ pc[t] \in {"bm_lock", "dc_lock"}

\* the places where a thread stands before `with clients_lock`
LockWaits == {"bm_lock", "dc_lock", "v_users", "register", "stop_clients"}

\* a thread that waits for clients_lock while a thread holds it; every holder
\* seen between two steps is deadlocked (LockHolderDeadlocked), so the wait
\* never ends
BlockedForever(t) == clients_lock # NoThread /\ pc[t] \in LockWaits

\* clients_lock is seen held only by a thread that waits for it itself
LockHolderDeadlocked == clients_lock # NoThread => Deadlocked(clients_lock)

\* the ids of the registry, as list() prints them
ListedIds == {clients[c].id : c \in DOMAIN clients}

\* how often the connection c has been registered
Registrations(c) ==
    Cardinality({i \in 1..Len(allocated) : allocated[i].name = Names[c]})

C2_AdmissionGate ==
    \A c \in Conns :
        /\ c \in DOMAIN clients =>
              /\ clients[c].name = Names[c]
              /\ resolved[c] = "True"
              /\ outcome[c] = "registered"
        /\ (\/ pc[c] \in {"idle", "hs", "create", "wait"}
            \/ outcome[c] \in {"malformed", "rejected", "dropped"}) =>
              c \notin DOMAIN clients

\* one connection is registered while another was turned away for a
\* malformed handshake
C2_Witness ==
    \E c, d \in Conns :
        /\ c \in DOMAIN clients
        /\ outcome[d] = "malformed"
        /\ d \notin DOMAIN clients

\* C6: ids are never reused: a registration takes an id greater than every
\* client id allocated before, a new pending request takes a pid greater than
\* every pid allocated before, and an id that has left the registry does not
\* come back into it.
C6_IdsNeverReused ==
    [][/\ \A c \in DOMAIN clients' \ DOMAIN clients :
            \A i \in 1..Len(allocated) : clients'[c].id > allocated[i].id
       /\ \A p \in DOMAIN pending' \ DOMAIN pending :
            \A q \in DOMAIN event : p > q
       /\ \A i \in 1..Len(allocated) :
            allocated[i].id \notin ListedIds =>
                allocated[i].id \notin {clients'[c].id : c \in DOMAIN clients'}
      ]_vars

\* the first client has been removed, and a second one is registered with
\* the next id
C6_Witness ==
    /\ Len(allocated) = 2
    /\ next_pending_id = 3
    /\ ListedIds = {2}

\* C7: no handle is in the pending table and in the client registry at once,
\* and the controller that is about to register has already removed its
\* pending entry.
C7_OneTable ==
    /\ \A p \in DOMAIN pending : pending[p].conn \notin DOMAIN clients
    /\ \A c \in Conns :
          pc[c] = "register" =>
              \A p \in DOMAIN pending : pending[p].conn # c

\* one connection has moved from the pending table to the registry while
\* another is still pending
C7_Witness ==
    \E p \in DOMAIN pending : \E c \in DOMAIN clients :
        /\ pending[p].conn # c
        /\ resolved[c] = "True"

\* C9: an accept or reject of a pid that is not in the pending table is a
\* no-op: the pending table, the registry, both id counters and the events
\* (so the tasks that wait on them) stay as they are and the operator is back
\* at the prompt; and at the prompt such a command can always run.
C9_StaleIsNoOp ==
    /\ [][\A pid \in Pids :
            (pid \notin DOMAIN pending /\ (OpAccept(pid) \/ OpReject(pid))) =>
                /\ stale'
                /\ UNCHANGED <<pending, clients, next_pending_id,
                               next_user_id, event, resolved, pc, locks>>
         ]_vars
    /\ [](\A pid \in Pids :
            (AtPrompt /\ pid \notin DOMAIN pending) =>
                ENABLED OpAccept(pid) /\ ENABLED OpReject(pid))

\* the operator has just resolved a pid that its controller had already
\* removed from the pending table
C9_Witness ==
    /\ stale
    /\ AtPrompt
    /\ \E pid \in DOMAIN event : pid \notin DOMAIN pending

\* the connections a broadcast of thread t has to reach: those registered at
\* the time of the broadcast, without the excluded one
Targets(t) ==
    (IF bm[t].state = "called" THEN DOMAIN clients
     ELSE {bm[t].snap[i] : i \in 1..Len(bm[t].snap)}) \ {bm[t].exclude}

\* the broadcast of thread t is over: it has returned, or it can never go on
BroadcastOver(t) ==
    \/ bm[t].state = "returned"
    \/ bm[t].state \in {"called", "looping"} /\ BlockedForever(t)

\* C3: when a registered client has sent `leave` and the cleanup of its
\* session has gone as far as it ever gets after taking clients_lock, the
\* client is out of the registry, its handle is closed, and every client that
\* remains registered and reachable has been sent its "has left the session"
\* notice exactly once.
C3_LeaveNoticeOnce ==
    \A c \in Conns :
        (exitCause[c] = "leave" /\ Deadlocked(c)) =>
            /\ c \notin DOMAIN clients
            /\ closed[c]
            /\ \A d \in DOMAIN clients :
                  SendOk(d) =>
                      Count(d, LeftMsg(loc[c].name, loc[c].user_id)) = 1

\* C4: in MESSAGING mode, when the relay of a client's text is over, every
\* other client registered at the time of the broadcast that is reachable
\* has been sent "<name>: m", and the sender has been sent nothing by it.
C4_RelayToOthers ==
    \A c \in Conns :
        (MODE = "MESSAGING" /\ bm[c].kind = "relay" /\ BroadcastOver(c)) =>
            /\ \A d \in Targets(c) : SendOk(d) => Count(d, bm[c].msg) >= 1
            /\ Count(c, bm[c].msg) = 0

\* C5: when the kick of a registered client is over, the client has been
\* sent the kick notice, its connection is closed and it is out of the
\* registry, so that list() no longer shows its id.
C5_KickRemoves ==
    (dc[OpThread].ret = "kick_ret"
        /\ (pc[OpThread] = "kick_ret" \/ BlockedForever(OpThread))) =>
        LET conn == dc[OpThread].target IN
        /\ peer[conn] = "up" => Count(conn, KickMsg) >= 1
        /\ closed[conn]
        /\ conn \notin DOMAIN clients
        /\ pc[OpThread] = "kick_ret"

\* C8: the decision of a pending request is written once: an accept or
\* reject of a pid whose decision is already set is reported as an unknown
\* pid and leaves the pending table as it is.
C8_DecisionWrittenOnce ==
    [][\A pid \in Pids :
          (pid \in DOMAIN pending /\ pending[pid].decision # "None"
              /\ (OpAccept(pid) \/ OpReject(pid))) =>
              stale' /\ UNCHANGED pending
      ]_vars

\* the [USERS] lines that list, in the order of registration, a set of the
\* clients registered so far that holds every id of `ids`
UsersLines(ids) ==
    {UsersMsg([i \in 1..Cardinality(S) |-> UserEntry(allocated[Sorted(S)[i]])]) :
        S \in {T \in SUBSET (1..Len(allocated)) :
                  \A id \in ids : \E i \in T : allocated[i].id = id}}

\* the start of the VOICE session of c is over: its join broadcast is, or
\* the thread can never get to it
VoiceJoinOver(c) ==
    \/ bm[c].kind = "join" /\ BroadcastOver(c)
    \/ pc[c] = "v_users" /\ BlockedForever(c)

\* C10: in VOICE mode, when a client has been admitted (registered and sent
\* its MODE token) and the start of its session is over, it has been sent a
\* [USERS] line that lists every client registered before it that is still
\* registered, every such client that is reachable has been sent the notice
\* that it joined the call, and it has not been sent that notice itself.
C10_VoiceJoin ==
    \A c \in Conns :
        (MODE = "VOICE" /\ c \in DOMAIN clients /\ SendOk(c)
            /\ Count(c, ModeToken(MODE)) = 1 /\ VoiceJoinOver(c)) =>
            LET earlier == {d \in DOMAIN clients :
                                clients[d].id < clients[c].id}
                notice == JoinedCallMsg(clients[c].name, clients[c].id)
            IN /\ \E line \in UsersLines({clients[d].id : d \in earlier}) :
                      Count(c, line) = 1
               /\ \A d \in earlier : SendOk(d) => Count(d, notice) = 1
               /\ Count(c, notice) = 0

\* C11: on shutdown every pending request that was outstanding is decided and
\* its controller woken: a controller that still waits on a request that stop
\* has taken out of the pending table has its event set, so that it goes on
\* to terminate.
C11_StopWakesWaiters ==
    \A c \in Conns :
        (pc[c] = "wait" /\ loc[c].pid \notin DOMAIN pending) =>
            event[loc[c].pid]

\* C12: failures are isolated: the thread of a connection is never left
\* holding clients_lock or pending_lock for ever, and no other thread waits
\* for ever for a lock that the thread of a connection holds.
C12_FailuresIsolated ==
    \A c \in Conns :
        /\ ~Deadlocked(c)
        /\ pending_lock # c
        /\ \A t \in Threads \ {c} : ~(clients_lock = c /\ BlockedForever(t))

\* a step whose sendall calls stand inside a `with clients_lock` or
\* `with pending_lock` block: the loop of a broadcast, the notice of a kick,
\* the two loops of stop
SendInsideLock ==
    \/ \E t \in Threads : Broadcast(t)
    \/ \E uid \in Uids : OpKick(uid)
    \/ StopPending
    \/ StopClients

\* a step that delivers data to some connection
SomeDelivery ==
    \E c \in Conns :
        BagCardinality(sent'[c].all) > BagCardinality(sent[c].all)

\* C13: no lock is held while a send to a peer is in progress: a step that
\* runs inside a `with clients_lock` or `with pending_lock` block delivers
\* nothing; the sends come after the lock is released.
C13_NoSendUnderLock ==
    [][SendInsideLock => ~SomeDelivery]_vars

\* C14: when a send to one member fails during a broadcast and the broadcast
\* has gone as far as it ever gets, that member is out of the registry, every
\* other reachable member of the snapshot has been sent the message, and the
\* call is not stuck: it returns to its caller.
C14_FailedSendIsDisconnect ==
    \A t \in Threads :
        (bm[t].state = "looping" /\ BlockedForever(t)) =>
            LET failed == bm[t].snap[bm[t].i] IN
            /\ failed \notin DOMAIN clients
            /\ \A d \in Targets(t) \ {failed} :
                  SendOk(d) => Count(d, bm[t].msg) >= 1
            /\ ~Deadlocked(t)

\* C15: a relay session that has left its loop (empty read, transport error,
\* leave, running false) ends with cleanup: it is never stuck for ever before
\* its handle is out of the registry and closed and its thread has ended.
C15_SessionCleanup ==
    \A c \in Conns :
        (exitCause[c] # "none" /\ BlockedForever(c)) =>
            /\ c \notin DOMAIN clients
            /\ closed[c]
            /\ ~Deadlocked(c)

\* C16: a connection whose handshake was malformed (no NAME: prefix, a
\* timeout, a read error) has been sent REJECT once if it can still be
\* reached, is closed, its controller has ended, and no pending request was
\* created for it.
C16_MalformedRejected ==
    \A c \in Conns :
        outcome[c] = "malformed" =>
            /\ peer[c] = "up" => Count(c, RejectToken) = 1
            /\ closed[c]
            /\ pc[c] = "done"
            /\ \A p \in DOMAIN pending : pending[p].conn # c
            /\ resolved[c] = "None"

\* the controller of c has called _disconnect_conn because the send of its
\* MODE token failed
ModeSendFailed(c) ==
    dc[c].target = c /\ dc[c].ret = "done" /\ exitCause[c] = "none"

\* C17: when the send of MODE:<mode> to a just-registered client has failed
\* and its controller has gone as far as it ever gets, the client is out of
\* the registry, its handle is closed, and the controller is not stuck: it
\* returns, and no relay session was started.
C17_ModeFailureRemoves ==
    \A c \in Conns :
        (ModeSendFailed(c) /\ BlockedForever(c)) =>
            /\ c \notin DOMAIN clients
            /\ closed[c]
            /\ ~Deadlocked(c)

\* thread t is inside a call of _disconnect_conn for the handle h
Disconnecting(t, h) ==
    /\ dc[t].target = h
    /\ \/ pc[t] = "dc_lock"
       \/ pc[t] = "bm_lock" /\ bm[t].kind = "left"

\* C18: removal is idempotent: when two threads have called _disconnect_conn
\* for the same handle and both calls have gone as far as they ever get, the
\* handle is out of the registry and closed, and every client that remains
\* registered and reachable has been sent its "has left the session" notice
\* exactly once.
C18_RemovalIdempotent ==
    \A h \in Conns : \A t1, t2 \in Threads :
        (t1 # t2 /\ Disconnecting(t1, h) /\ Disconnecting(t2, h)
            /\ BlockedForever(t1) /\ BlockedForever(t2)) =>
            /\ h \notin DOMAIN clients
            /\ closed[h]
            /\ \A d \in DOMAIN clients \ {h} :
                  SendOk(d) =>
                      Count(d, LeftMsg(loc[h].name, loc[h].user_id)) = 1

\* thread t takes a step inside a `with clients_lock` block
InClientsLockBlock(t) ==
    \/ Broadcast(t)
    \/ DisconnectConn(t)
    \/ t \in Conns /\ (Register(t) \/ VoiceSnapshot(t))
    \/ t = OpThread /\ (StopClients \/ \E uid \in Uids : OpKick(uid))

\* thread t takes a step inside a `with pending_lock` block
InPendingLockBlock(t) ==
    \/ t \in Conns /\ (CreatePending(t) \/ PopDecision(t))
    \/ t = OpThread /\ \/ StopPending
                       \/ \E pid \in Pids : OpAccept(pid) \/ OpReject(pid)

\* C19: no thread holds clients_lock and pending_lock at the same time: no
\* state shows both held by one thread, a thread that enters a
\* `with clients_lock` block does not hold pending_lock, and a thread that
\* enters a `with pending_lock` block does not hold clients_lock.
C19_LocksNeverNested ==
    /\ [](\A t \in Threads : ~(clients_lock = t /\ pending_lock = t))
    /\ [][\A t \in Threads :
            /\ InClientsLockBlock(t) => pending_lock # t
            /\ InPendingLockBlock(t) => clients_lock # t
         ]_vars

\* stop has run both of its blocks one after the other: a pending connection
\* was sent REJECT under pending_lock and a client its notice under
\* clients_lock
C19_Witness ==
    /\ pc[OpThread] = "stopped"
    /\ \E c \in Conns : pc[c] = "wait" /\ Count(c, RejectToken) = 1
    /\ \E d \in Conns : Count(d, ShutdownMsg) = 1

\* C20: the first data the server delivers to an admitted (registered)
\* connection is its MODE token: no join, leave or relayed message and no
\* operator notice reaches the connection before it.
C20_ModeTokenFirst ==
    \A c \in Conns :
        (outcome[c] = "registered" /\ sent[c].first # "") =>
            sent[c].first = ModeToken(MODE)

====
